---- MODULE Spec2Model ----
\* Model of kraken-exporter's ticker-to-metrics pipeline: State::get and
\* State::generate (src/src/state.rs).  Strings that the code formats, splits
\* or parses are sequences of one-character strings; strings it only compares
\* or passes along (metric names, label names, error names) are TLA+ strings.
EXTENDS Integers, Sequences, FiniteSets, TLC

\* ------------------------------------------------------------------ bounds
MaxPairs   == 2   \* entries of an AssetPairs result
MaxAssets  == 2   \* entries of an Assets result
MaxTickers == 2   \* entries of a Tickers result

\* ------------------------------------------------------------ string helpers
Range(s) == { s[i] : i \in 1..Len(s) }

NoDup(s) == \A i, j \in 1..Len(s) : i # j => s[i] # s[j]

Digits == {"0", "1", "2", "3", "4", "5", "6", "7", "8", "9"}

DigitVal(ch) ==
  CASE ch = "0" -> 0 [] ch = "1" -> 1 [] ch = "2" -> 2 [] ch = "3" -> 3
    [] ch = "4" -> 4 [] ch = "5" -> 5 [] ch = "6" -> 6 [] ch = "7" -> 7
    [] ch = "8" -> 8 [] ch = "9" -> 9

RECURSIVE DigitsVal(_)
DigitsVal(s) ==
  IF s = <<>> THEN 0 ELSE 10 * DigitsVal(SubSeq(s, 1, Len(s) - 1)) + DigitVal(s[Len(s)])

RECURSIVE Pow10(_)
Pow10(n) == IF n = 0 THEN 1 ELSE 10 * Pow10(n - 1)

\* A float is kept exactly, as num / 10^scale with no trailing zero in the
\* fraction, so that "1.50" and "1.5" are the same value.
RECURSIVE Normal(_, _)
Normal(num, scale) ==
  IF scale > 0 /\ num % 10 = 0 THEN Normal(num \div 10, scale - 1)
  ELSE [kind |-> "finite", num |-> num, scale |-> scale]

NaN == [kind |-> "NaN", num |-> 0, scale |-> 0]

\* str::parse::<f64>() on the exponent-free decimal grammar
\*   [+|-] digits [ . digits ]   |   [+|-] . digits
\* and on "NaN"; anything else is Err(ParseFloatError).
ParseF64(s) ==
  LET signed == s # <<>> /\ s[1] \in {"+", "-"}
      neg    == s # <<>> /\ s[1] = "-"
      body   == IF signed THEN SubSeq(s, 2, Len(s)) ELSE s
      dots   == { i \in 1..Len(body) : body[i] = "." }
      dot    == IF dots = {} THEN Len(body) + 1 ELSE CHOOSE i \in dots : TRUE
      int    == SubSeq(body, 1, dot - 1)
      frac   == SubSeq(body, dot + 1, Len(body))
      wellFormed ==
        /\ Cardinality(dots) <= 1
        /\ Range(int) \subseteq Digits
        /\ Range(frac) \subseteq Digits
        /\ Len(int) + Len(frac) >= 1
      mag == Normal(DigitsVal(int) * Pow10(Len(frac)) + DigitsVal(frac), Len(frac))
  IN  IF s = <<"N", "a", "N">> THEN [ok |-> TRUE, val |-> NaN]
      ELSE IF wellFormed
        THEN [ok |-> TRUE,
              val |-> [mag EXCEPT !.num = IF neg THEN 0 - mag.num ELSE mag.num]]
        ELSE [ok |-> FALSE, val |-> NaN]   \* Err(ParseFloatError): val is unused

\* `n as f64` for a u32.
U32AsF64(n) == [kind |-> "finite", num |-> n, scale |-> 0]

\* str::split('/') collected into a Vec: always at least one token.
RECURSIVE Split(_)
Split(s) ==
  LET slashes == { i \in 1..Len(s) : s[i] = "/" }
  IN  IF slashes = {} THEN << s >>
      ELSE LET i == CHOOSE k \in slashes : \A m \in slashes : k <= m
           IN  << SubSeq(s, 1, i - 1) >> \o Split(SubSeq(s, i + 1, Len(s)))

\* Vec<String>::join(",")
RECURSIVE Join(_)
Join(v) ==
  IF v = <<>> THEN <<>>
  ELSE IF Len(v) = 1 THEN v[1]
  ELSE v[1] \o <<",">> \o Join(Tail(v))

\* ------------------------------------------------------ program constants
ASSET_PAIRS == "AssetPairs"
ASSETS      == "Assets"
TICKER      == "Ticker"

REFERENCE_CURRENCIES ==
  << <<"A", "U", "D">>, <<"C", "A", "D">>, <<"B", "T", "C">>, <<"E", "T", "H">>,
     <<"E", "U", "R">>, <<"G", "B", "P">>, <<"J", "P", "Y">>, <<"U", "S", "D">>,
     <<"X", "B", "T">>, <<"U", "S", "D", "T">>, <<"U", "S", "D", "C">> >>

\* --------------------------------------------------------- bounded inputs
\* Pair codes an upstream document may use as keys: XBX+USD (form AR of
\* altname XBX and form XAXR of altname B), X+B+Z+EUR (form XAZR of altname B)
\* and FOO (none of the forms).
PairCodes ==
  { <<"X", "B", "X", "U", "S", "D">>, <<"X", "B", "Z", "E", "U", "R">>, <<"F", "O", "O">> }

\* wsname values: well formed, empty base token, no separator.
Wsnames ==
  { <<"B", "/", "U", "S", "D">>, <<"/", "U", "S", "D">>, <<"B", "U", "S", "D">> }

\* Assets by asset code; two codes share the altname B.
AssetUniverse ==
  [ code \in {"B", "B.S", "XBX"} |->
      [altname |-> IF code = "XBX" THEN <<"X", "B", "X">> ELSE <<"B">>] ]

\* Ticker Info fixtures: all fields parse; c[0] does not parse; v[1] does not.
GoodInfo ==
  [c |-> << <<"1", ".", "5">> >>, v |-> << <<"2">>, <<"3">> >>,
   p |-> << <<"4">>, <<"5", ".", "0">> >>, t |-> <<6, 7>>]

Infos ==
  { GoodInfo,
    [GoodInfo EXCEPT !.c = << <<"N", "a", "N", "i", "s", "h">> >>],
    [GoodInfo EXCEPT !.v = << <<"2">>, <<"x">> >>] }

\* All maps from at most n keys of `keys` to values of `vals`.
Maps(keys, vals, n) ==
  UNION { [S -> vals] : S \in { T \in SUBSET keys : Cardinality(T) <= n } }

AssetPairResults == Maps(PairCodes, [wsname : Wsnames], MaxPairs)

AssetResults ==
  { [code \in S |-> AssetUniverse[code]] :
      S \in { T \in SUBSET DOMAIN AssetUniverse : Cardinality(T) <= MaxAssets } }

TickerResults == Maps(PairCodes, Infos, MaxTickers)

\* A response body: not decodable at all, or the upstream envelope
\* { error: [String], result: Map } whose `result` may be absent.
Garbage == [json |-> FALSE, hasResult |-> FALSE, error |-> <<>>, result |-> <<>>]

Envelope(error, result) ==
  [json |-> TRUE, hasResult |-> TRUE, error |-> error, result |-> result]

ErrorOnly == [json |-> TRUE, hasResult |-> FALSE, error |-> <<"EGeneral">>, result |-> <<>>]

FixturePairs  == [k \in {<<"X", "B", "X", "U", "S", "D">>} |-> [wsname |-> <<"B", "/", "U", "S", "D">>]]
FixtureAssets == [code \in {"B"} |-> AssetUniverse[code]]
FixtureTicker == [k \in {<<"X", "B", "X", "U", "S", "D">>} |-> GoodInfo]

Statuses == {200, 201, 301, 401, 403, 404, 500}

\* What the upstream may answer to one request: the request fails in transport,
\* or a status arrives and (for the body) buffering fails or yields `body`.
Responses(results, fixture) ==
  { [transport |-> FALSE, status |-> 0, bodyRead |-> FALSE, body |-> Garbage] }
  \cup [transport : {TRUE}, status : Statuses \ {200}, bodyRead : {TRUE},
        body : {Garbage, Envelope(<<>>, fixture)}]
  \cup { [transport |-> TRUE, status |-> 200, bodyRead |-> FALSE, body |-> Garbage] }
  \cup [transport : {TRUE}, status : {200}, bodyRead : {TRUE},
        body : {Garbage, ErrorOnly, Envelope(<<"EGeneral">>, fixture)}
               \cup { Envelope(<<>>, r) : r \in results }]

\* ------------------------------------------------------------- State::get
Ok(bytes) == [ok |-> TRUE, bytes |-> bytes, err |-> "none"]
Err(e)    == [ok |-> FALSE, bytes |-> Garbage, err |-> e]

\* Mutants of Get: the catch-all arm returns the body; the 404 arm returns
\* the body; the 401 and 403 arms are exchanged.
GetUnknownAsOk(resp) ==
  IF ~resp.transport THEN Err("Transport")
  ELSE CASE resp.status = 404 -> Err("NotFound")
         [] resp.status = 403 -> Err("Forbidden")
         [] resp.status = 401 -> Err("Unauthorized")
         [] OTHER -> IF resp.bodyRead THEN Ok(resp.body) ELSE Err("Transport")

GetNotFoundAsOk(resp) ==
  IF ~resp.transport THEN Err("Transport")
  ELSE CASE resp.status = 403 -> Err("Forbidden")
         [] resp.status = 401 -> Err("Unauthorized")
         [] resp.status \in {200, 404} ->
              IF resp.bodyRead THEN Ok(resp.body) ELSE Err("Transport")
         [] OTHER -> Err("Unknown")

GetSwapped(resp) ==
  IF ~resp.transport THEN Err("Transport")
  ELSE CASE resp.status = 404 -> Err("NotFound")
         [] resp.status = 403 -> Err("Unauthorized")
         [] resp.status = 401 -> Err("Forbidden")
         [] resp.status = 200 ->
              IF resp.bodyRead THEN Ok(resp.body) ELSE Err("Transport")
         [] OTHER -> Err("Unknown")

\* The `?` on request() (line 92) and on to_bytes() (line 99) returns the
\* hyper error converted into a RestError; the converted error is named
\* Transport here, and the converted serde_json error of line 113 Decode.
\* The status match is lines 94-108.
Get(resp) ==
  IF ~resp.transport THEN Err("Transport")
  ELSE CASE resp.status = 404 -> Err("NotFound")
         [] resp.status = 403 -> Err("Forbidden")
         [] resp.status = 401 -> Err("Unauthorized")
         [] resp.status = 200 ->
              IF resp.bodyRead THEN Ok(resp.body) ELSE Err("Transport")
         [] OTHER -> Err("Unknown")

\* serde_json::from_slice into AssetPairs / Assets / Tickers: both fields of
\* the envelope are required; `error` is decoded and never inspected.
Decode(bytes) ==
  IF bytes.json /\ bytes.hasResult
    THEN [ok |-> TRUE, val |-> [error |-> bytes.error, result |-> bytes.result]]
    ELSE [ok |-> FALSE, val |-> [error |-> <<>>, result |-> <<>>]]

\* self.get(url).await? followed by serde_json::from_slice(&bytes)?
Fetch(resp) ==
  LET got == Get(resp)
  IN  IF ~got.ok THEN [ok |-> FALSE, err |-> got.err, val |-> Decode(Garbage).val]
      ELSE LET d == Decode(got.bytes)
           IN  [ok |-> d.ok, err |-> IF d.ok THEN "none" ELSE "Decode", val |-> d.val]

\* ------------------------------------------------- pair discovery (120-147)
PairAR(altname, rc)   == altname \o rc
PairXAXR(altname, rc) == <<"X">> \o altname \o <<"X">> \o rc
PairXAZR(altname, rc) == <<"X">> \o altname \o <<"Z">> \o rc

\* Mutant of PushCandidates: the AR candidate is pushed without the
\* contains_key test.
PushCandidatesUnchecked(altname, rc, pairs) ==
  LET push(pair) == IF pair \in DOMAIN pairs THEN << pair >> ELSE <<>>
  IN  << PairAR(altname, rc) >> \o push(PairXAXR(altname, rc)) \o push(PairXAZR(altname, rc))

\* One iteration of the inner loop: the three candidates, each pushed when
\* asset_pairs.result.contains_key(&pair).
PushCandidates(altname, rc, pairs) ==
  LET push(pair) == IF pair \in DOMAIN pairs THEN << pair >> ELSE <<>>
  IN  push(PairAR(altname, rc)) \o push(PairXAXR(altname, rc)) \o push(PairXAZR(altname, rc))

RECURSIVE ForReferences(_, _, _)
ForReferences(altname, i, pairs) ==
  IF i > Len(REFERENCE_CURRENCIES) THEN <<>>
  ELSE PushCandidates(altname, REFERENCE_CURRENCIES[i], pairs)
         \o ForReferences(altname, i + 1, pairs)

\* The outer loop over assets.result.iter(), visited in the order `order`
\* (a HashMap iterates in an arbitrary order).
RECURSIVE BuildVec(_, _, _)
BuildVec(order, assets, pairs) ==
  IF order = <<>> THEN <<>>
  ELSE ForReferences(assets[Head(order)].altname, 1, pairs)
         \o BuildVec(Tail(order), assets, pairs)

\* The orders in which a HashMap with key set S may be iterated.
Orders(S) ==
  { o \in [1..Cardinality(S) -> S] : \A i, j \in 1..Cardinality(S) : i # j => o[i] # o[j] }

TickerUrl(v) == [endpoint |-> TICKER, pair |-> Join(v)]
PlainUrl(e)  == [endpoint |-> e, pair |-> <<>>]

\* ------------------------------------------------------- publishing (155-170)
Labels(wsname) ==
  LET wsname_split == Split(wsname)
  IN  << <<"currency", wsname_split[1]>>,
         <<"reference_currency", wsname_split[2]>>,
         <<"pair", wsname>> >>

\* Indexing a Vec<String> and parsing the element; both panic on failure
\* (index out of bounds, unwrap on Err).
ParseAt(strings, i) ==
  IF i + 1 > Len(strings) THEN [ok |-> FALSE, val |-> NaN] ELSE ParseF64(strings[i + 1])

U32At(nums, i) ==
  IF i + 1 > Len(nums) THEN [ok |-> FALSE, val |-> NaN]
  ELSE [ok |-> TRUE, val |-> U32AsF64(nums[i + 1])]

\* Mutant of Gauges: exchange_volume_daily takes v[0].
GaugesVolumeToday(value) ==
  << [name |-> "exchange_rate",                  arg |-> ParseAt(value.c, 0)],
     [name |-> "exchange_volume_daily",          arg |-> ParseAt(value.v, 0)],
     [name |-> "exchange_rate_average",          arg |-> ParseAt(value.p, 0)],
     [name |-> "exchange_rate_average_last_day", arg |-> ParseAt(value.p, 1)],
     [name |-> "exchange_trades_daily",          arg |-> U32At(value.t, 1)] >>

\* The five gauge! calls in source order, each with its evaluated argument.
Gauges(value) ==
  << [name |-> "exchange_rate",                  arg |-> ParseAt(value.c, 0)],
     [name |-> "exchange_volume_daily",          arg |-> ParseAt(value.v, 1)],
     [name |-> "exchange_rate_average",          arg |-> ParseAt(value.p, 0)],
     [name |-> "exchange_rate_average_last_day", arg |-> ParseAt(value.p, 1)],
     [name |-> "exchange_trades_daily",          arg |-> U32At(value.t, 1)] >>

\* One iteration of the loop over tickers.result: the gauge writes it makes,
\* in order, and whether it panics (unwrap on a missing AssetPairs entry,
\* wsname_split[1] out of bounds, an argument that fails to evaluate).
ProcessEntry(pairs, asset, value) ==
  IF asset \notin DOMAIN pairs THEN [writes |-> <<>>, panic |-> TRUE]
  ELSE IF Len(Split(pairs[asset].wsname)) < 2 THEN [writes |-> <<>>, panic |-> TRUE]
  ELSE LET labels == Labels(pairs[asset].wsname)
           g      == Gauges(value)
           bad    == { i \in 1..Len(g) : ~g[i].arg.ok }
           n      == IF bad = {} THEN Len(g)
                     ELSE (CHOOSE i \in bad : \A j \in bad : i <= j) - 1
       IN  [writes |-> [i \in 1..n |->
                          [asset |-> asset, name |-> g[i].name,
                           labels |-> labels, value |-> g[i].arg.val]],
            panic |-> bad # {}]

\* gauge!(name, value, &labels): last writer wins per (name, labels).
RECURSIVE ApplyWrites(_, _)
ApplyWrites(reg, ws) ==
  IF ws = <<>> THEN reg
  ELSE LET key  == [name |-> Head(ws).name, labels |-> Head(ws).labels]
           reg1 == [k \in DOMAIN reg \cup {key} |->
                      IF k = key THEN Head(ws).value ELSE reg[k]]
       IN  ApplyWrites(reg1, Tail(ws))

\* ------------------------------------------------------------------- state
VARIABLES
  pc,          \* position of the generate() task: idle, asset_pairs, assets,
               \* ticker, publish, done, failed, panicked
  asset_pairs, \* the decoded AssetPairs of this cycle
  vec,         \* the pair codes pushed by discovery
  tickers,     \* the decoded Tickers of this cycle
  todo,        \* keys of tickers.result the publishing loop has not visited
  registry,    \* the metrics recorder: (name, labels) -> value
  result,      \* what generate() returned: none, Ok, an error name, panic
  lastGet,     \* the latest call of get: url, upstream response, outcome
  regAtStart,  \* history: the registry when this cycle started
  trace,       \* history: requests, responses and gauge writes of this cycle
  writes,      \* history: the gauge writes of this cycle
  sawError     \* history: endpoints whose decoded envelope had a non-empty error

vars == << pc, asset_pairs, vec, tickers, todo, registry, result,
           lastGet, regAtStart, trace, writes, sawError >>

NoEnvelope == [error |-> <<>>, result |-> <<>>]

NoGet ==
  [url |-> PlainUrl("none"),
   resp |-> [transport |-> FALSE, status |-> 0, bodyRead |-> FALSE, body |-> Garbage],
   out |-> Err("none")]

Init ==
  /\ pc = "idle"
  /\ asset_pairs = NoEnvelope
  /\ vec = <<>>
  /\ tickers = NoEnvelope
  /\ todo = {}
  /\ registry = <<>>
  /\ result = "none"
  /\ lastGet = NoGet
  /\ regAtStart = <<>>
  /\ trace = <<>>
  /\ writes = {}
  /\ sawError = {}

\* A caller invokes generate(); the locals of the previous call are gone.
StartCycle ==
  /\ pc \in {"idle", "done", "failed", "panicked"}
  /\ pc' = "asset_pairs"
  /\ asset_pairs' = NoEnvelope
  /\ vec' = <<>>
  /\ tickers' = NoEnvelope
  /\ todo' = {}
  /\ result' = "none"
  /\ lastGet' = NoGet
  /\ regAtStart' = registry
  /\ trace' = <<>>
  /\ writes' = {}
  /\ sawError' = {}
  /\ UNCHANGED registry

Noted(endpoint, f) ==
  IF f.ok /\ f.val.error # <<>> THEN sawError \cup {endpoint} ELSE sawError

\* Lines 112-113: get(ASSET_PAIRS) and its decoding.
GetAssetPairs ==
  /\ pc = "asset_pairs"
  /\ \E resp \in Responses(AssetPairResults, FixturePairs) :
       LET f == Fetch(resp)
       IN  /\ lastGet' = [url |-> PlainUrl(ASSET_PAIRS), resp |-> resp, out |-> Get(resp)]
           /\ trace' = trace \o << "req AssetPairs", "resp AssetPairs" >>
                              \o (IF f.ok THEN << "decoded AssetPairs" >> ELSE <<>>)
           /\ sawError' = Noted(ASSET_PAIRS, f)
           /\ IF f.ok
                THEN /\ asset_pairs' = f.val
                     /\ pc' = "assets"
                     /\ UNCHANGED result
                ELSE /\ pc' = "failed"
                     /\ result' = f.err
                     /\ UNCHANGED asset_pairs
  /\ UNCHANGED << vec, tickers, todo, registry, regAtStart, writes >>

\* Lines 116-150: get(ASSETS), its decoding, the discovery loops, the url.
GetAssets ==
  /\ pc = "assets"
  /\ \E resp \in Responses(AssetResults, FixtureAssets) :
       LET f == Fetch(resp)
       IN  /\ lastGet' = [url |-> PlainUrl(ASSETS), resp |-> resp, out |-> Get(resp)]
           /\ trace' = trace \o << "req Assets", "resp Assets" >>
                              \o (IF f.ok THEN << "decoded Assets" >> ELSE <<>>)
           /\ sawError' = Noted(ASSETS, f)
           /\ IF f.ok
                THEN /\ \E order \in Orders(DOMAIN f.val.result) :
                          vec' = BuildVec(order, f.val.result, asset_pairs.result)
                     /\ pc' = "ticker"
                     /\ UNCHANGED result
                ELSE /\ pc' = "failed"
                     /\ result' = f.err
                     /\ UNCHANGED vec
  /\ UNCHANGED << asset_pairs, tickers, todo, registry, regAtStart, writes >>

\* Lines 152-153: get(url) of the ticker endpoint and its decoding.
GetTicker ==
  /\ pc = "ticker"
  /\ \E resp \in Responses(TickerResults, FixtureTicker) :
       LET f == Fetch(resp)
       IN  /\ lastGet' = [url |-> TickerUrl(vec), resp |-> resp, out |-> Get(resp)]
           /\ trace' = trace \o << "req Ticker", "resp Ticker" >>
                              \o (IF f.ok THEN << "decoded Ticker" >> ELSE <<>>)
           /\ sawError' = Noted(TICKER, f)
           /\ IF f.ok
                THEN /\ tickers' = f.val
                     /\ todo' = DOMAIN f.val.result
                     /\ pc' = "publish"
                     /\ UNCHANGED result
                ELSE /\ pc' = "failed"
                     /\ result' = f.err
                     /\ UNCHANGED << tickers, todo >>
  /\ UNCHANGED << asset_pairs, vec, registry, regAtStart, writes >>

WriteTags(n) == [i \in 1..n |-> "write"]

\* Lines 155-170: one iteration of the loop over tickers.result.iter().
PublishEntry ==
  /\ pc = "publish"
  /\ \E asset \in todo :
       LET r == ProcessEntry(asset_pairs.result, asset, tickers.result[asset])
       IN  /\ registry' = ApplyWrites(registry, r.writes)
           /\ writes' = writes \cup Range(r.writes)
           /\ trace' = trace \o WriteTags(Len(r.writes))
           /\ todo' = todo \ {asset}
           /\ IF r.panic
                THEN pc' = "panicked" /\ result' = "panic"
                ELSE UNCHANGED << pc, result >>
  /\ UNCHANGED << asset_pairs, vec, tickers, lastGet, regAtStart, sawError >>

\* Line 172: the loop is over, Ok(()).
Finish ==
  /\ pc = "publish"
  /\ todo = {}
  /\ pc' = "done"
  /\ result' = "Ok"
  /\ UNCHANGED << asset_pairs, vec, tickers, todo, registry, lastGet,
                  regAtStart, trace, writes, sawError >>

Next ==
  \/ StartCycle
  \/ GetAssetPairs
  \/ GetAssets
  \/ GetTicker
  \/ PublishEntry
  \/ Finish

Spec == Init /\ [][Next]_vars

\* ================================================================ claims
\* What the claims say of an upstream response, stated on the response itself.
Failing(resp) ==
  \/ ~resp.transport
  \/ resp.status # 200
  \/ ~resp.bodyRead
  \/ ~resp.body.json
  \/ ~resp.body.hasResult

Discovery == {ASSET_PAIRS, ASSETS}

\* The labels of a ticker entry resolve: it has an AssetPairs entry whose
\* wsname splits into a non-empty base and a non-empty quote.
Resolves(asset) ==
  /\ asset \in DOMAIN asset_pairs.result
  /\ Len(Split(asset_pairs.result[asset].wsname)) >= 2
  /\ Split(asset_pairs.result[asset].wsname)[1] # <<>>
  /\ Split(asset_pairs.result[asset].wsname)[2] # <<>>

ExpectedLabels(asset) ==
  LET ws == asset_pairs.result[asset].wsname
  IN  << <<"currency", Split(ws)[1]>>, <<"reference_currency", Split(ws)[2]>>,
         <<"pair", ws>> >>

Written(asset, names, value) ==
  \E w \in writes :
    /\ w.asset = asset
    /\ w.name \in names
    /\ w.labels = ExpectedLabels(asset)
    /\ w.value = value

Ended == pc \in {"done", "failed", "panicked"}

\* C1: a decimal string of c, v or p that does not parse costs only its own
\* gauge: every gauge whose field parses is still written, for that pair and
\* for the others, and generate() returns Ok.  (Stated for cycles whose ticker
\* entries all resolve their labels, so that nothing else can stop the cycle.)
C1_ParseFailureSkipsOneGauge ==
  (pc \in {"done", "panicked"} /\ \A a \in DOMAIN tickers.result : Resolves(a)) =>
    /\ result = "Ok"
    /\ \A a \in DOMAIN tickers.result :
         LET g == Gauges(tickers.result[a])
         IN  \A i \in 1..Len(g) :
               g[i].arg.ok => Written(a, {g[i].name}, g[i].arg.val)

\* C2: a ticker code without an AssetPairs entry gets no gauge and is dropped,
\* the gauges of every other pair of the response are written, and the cycle
\* completes with Ok.  (Stated for cycles in which every entry that has an
\* AssetPairs entry has a wsname with a separator and fields that parse.)
C2_MissingPairIsDropped ==
  LET known == DOMAIN tickers.result \cap DOMAIN asset_pairs.result
  IN  ( /\ pc \in {"done", "panicked"}
        /\ \A a \in known :
             /\ Resolves(a)
             /\ \A i \in 1..5 : Gauges(tickers.result[a])[i].arg.ok ) =>
        /\ result = "Ok"
        /\ \A w \in writes : w.asset \in known
        /\ \A a \in known :
             \A i \in 1..5 :
               Written(a, {Gauges(tickers.result[a])[i].name},
                       Gauges(tickers.result[a])[i].arg.val)

\* C3: when the AssetPairs or the Assets request fails in transport, by its
\* status, in buffering or in decoding, the cycle ends with the error of that
\* failure, no ticker request is issued and the registry is the one the cycle
\* started with.
ErrorOfFailure(resp) ==
  IF ~resp.transport THEN "Transport"
  ELSE IF resp.status = 404 THEN "NotFound"
  ELSE IF resp.status = 403 THEN "Forbidden"
  ELSE IF resp.status = 401 THEN "Unauthorized"
  ELSE IF resp.status # 200 THEN "Unknown"
  ELSE IF ~resp.bodyRead THEN "Transport"
  ELSE "Decode"

C3_DiscoveryFailureKeepsRegistry ==
  (lastGet.url.endpoint \in Discovery /\ Failing(lastGet.resp)) =>
    /\ pc = "failed"
    /\ result = ErrorOfFailure(lastGet.resp)
    /\ "req Ticker" \notin Range(trace)
    /\ writes = {}
    /\ registry = regAtStart

C3_Witness ==
  /\ pc = "failed"
  /\ lastGet.url.endpoint = ASSETS
  /\ lastGet.resp.status = 404
  /\ result = "NotFound"
  /\ regAtStart # <<>>
  /\ registry = regAtStart

\* C4: in the events of a cycle, the ticker request comes after both discovery
\* documents were received and decoded and no discovery event follows it;
\* every gauge write comes after the ticker response was received and
\* decoded; a cycle whose ticker request or decoding fails writes no gauge.
C4_CycleOrder ==
  /\ \A i \in 1..Len(trace) :
       trace[i] = "req Ticker" =>
         /\ \E j \in 1..(i - 1) : trace[j] = "decoded AssetPairs"
         /\ \E j \in 1..(i - 1) : trace[j] = "decoded Assets"
         /\ \A j \in (i + 1)..Len(trace) :
              trace[j] \notin {"req AssetPairs", "resp AssetPairs", "decoded AssetPairs",
                               "req Assets", "resp Assets", "decoded Assets"}
  /\ \A i \in 1..Len(trace) :
       trace[i] = "write" =>
         \E j \in 1..(i - 1) :
           /\ trace[j] = "decoded Ticker"
           /\ j > 1 /\ trace[j - 1] = "resp Ticker"
  /\ (lastGet.url.endpoint = TICKER /\ Failing(lastGet.resp)) =>
       /\ "write" \notin Range(trace)
       /\ writes = {}
       /\ registry = regAtStart

C4_Witness ==
  /\ pc = "failed"
  /\ lastGet.url.endpoint = TICKER
  /\ Failing(lastGet.resp)
  /\ regAtStart # <<>>

\* C5: a cycle that consumed a response whose envelope carries a non-empty
\* error list does not return Ok and publishes no gauge.
C5_UpstreamErrorFailsCycle ==
  (Ended /\ sawError # {}) => (result # "Ok" /\ writes = {})

\* C6: the pair codes joined into the pair= parameter of the ticker request
\* hold no code twice.
C6_QueryHasNoDuplicates ==
  lastGet.url.endpoint = TICKER => (lastGet.url.pair = Join(vec) /\ NoDup(vec))

C8_StatusDecidesOutcome ==
  (lastGet.url.endpoint # "none" /\ lastGet.resp.transport) =>
    LET st == lastGet.resp.status
        o  == lastGet.out
    IN  /\ st = 200 => (o.ok /\ o.bytes = lastGet.resp.body)
        /\ st = 401 => (~o.ok /\ o.err = "Unauthorized")
        /\ st = 403 => (~o.ok /\ o.err = "Forbidden")
        /\ st = 404 => (~o.ok /\ o.err = "NotFound")
        /\ st \notin {200, 401, 403, 404} => (~o.ok /\ o.err = "Unknown")

\* C8, amended: 200 yields Ok with the body when the body is buffered and the
\* transport error of the buffering when it is not; 401, 403, 404 and every
\* other status yield Unauthorized, Forbidden, NotFound and Unknown; no
\* status other than 200 yields Ok.
C8_StatusAndBufferingDecideOutcome ==
  (lastGet.url.endpoint # "none" /\ lastGet.resp.transport) =>
    LET st == lastGet.resp.status
        o  == lastGet.out
    IN  /\ (st = 200 /\ lastGet.resp.bodyRead) => (o.ok /\ o.bytes = lastGet.resp.body)
        /\ (st = 200 /\ ~lastGet.resp.bodyRead) => (~o.ok /\ o.err = "Transport")
        /\ st = 401 => (~o.ok /\ o.err = "Unauthorized")
        /\ st = 403 => (~o.ok /\ o.err = "Forbidden")
        /\ st = 404 => (~o.ok /\ o.err = "NotFound")
        /\ st \notin {200, 401, 403, 404} => (~o.ok /\ o.err = "Unknown")
        /\ st # 200 => ~o.ok

C8_Witness ==
  /\ lastGet.url.endpoint = TICKER
  /\ lastGet.resp.transport
  /\ lastGet.resp.status = 200
  /\ ~lastGet.resp.bodyRead
  /\ lastGet.out.err = "Transport"
  /\ result = "Transport"

\* C9: every sample of the registry carries the three labels currency,
\* reference_currency and pair, each with a non-empty value.
C9_LabelsNonEmpty ==
  \A k \in DOMAIN registry :
    /\ Len(k.labels) = 3
    /\ k.labels[1][1] = "currency" /\ k.labels[1][2] # <<>>
    /\ k.labels[2][1] = "reference_currency" /\ k.labels[2][2] # <<>>
    /\ k.labels[3][1] = "pair" /\ k.labels[3][2] # <<>>

\* C10: the codes of the ticker request are exactly the candidates A+R,
\* X+A+X+R, X+A+Z+R (A an altname of the decoded Assets, R a reference
\* currency) that are keys of the decoded AssetPairs.
CandidateCodes(assets) ==
  { c \in UNION { { assets[code].altname \o REFERENCE_CURRENCIES[i],
                    <<"X">> \o assets[code].altname \o <<"X">> \o REFERENCE_CURRENCIES[i],
                    <<"X">> \o assets[code].altname \o <<"Z">> \o REFERENCE_CURRENCIES[i] } :
                  code \in DOMAIN assets, i \in 1..Len(REFERENCE_CURRENCIES) } : TRUE }

C10_QueryIsCandidatesInAssetPairs ==
  (pc = "ticker" /\ lastGet.url.endpoint = ASSETS) =>
    /\ Range(vec) = CandidateCodes(lastGet.resp.body.result) \cap DOMAIN asset_pairs.result
    /\ Range(vec) \subseteq DOMAIN asset_pairs.result

C10_Witness ==
  /\ pc = "ticker"
  /\ lastGet.url.endpoint = ASSETS
  /\ Len(vec) >= 1
  /\ <<"F", "O", "O">> \in DOMAIN asset_pairs.result
  /\ <<"F", "O", "O">> \notin Range(vec)
  /\ DOMAIN asset_pairs.result \ {<<"F", "O", "O">>} = Range(vec)

====
